---- MODULE Spec2Model ----
(***************************************************************************)
(* A model of the intermodal data-enveloping crate (src/rust/src/lib.rs):  *)
(* the Manifest, Header and Packet<T> value types, the four conversions    *)
(* between them, and the serde-derived encode/decode of each type.         *)
(*                                                                         *)
(* Encoded data is modelled as the tree of JSON values the codec reads and *)
(* writes.  Rust values and JSON values are different things here: a       *)
(* DateTime is an instant, its encoding is a text; labels is a map, its    *)
(* encoding is an object that is absent when the map is empty.             *)
(***************************************************************************)
EXTENDS Integers, Sequences, FiniteSets, TLC

(***************************************************************************)
(* Bounds of the model.                                                    *)
(***************************************************************************)
MaxVersion == 2
MaxTamper == 1

(***************************************************************************)
(* State.                                                                  *)
(*   e, eT     the packet in hand and its content type T                   *)
(*   hdr, man  the Header and the Manifest in hand (None before the first) *)
(*   wire      the encoded blob in hand (None before the first)            *)
(*   dec       the last decode of wire: its target type and its result     *)
(* History variables, written by the actions and read only by properties:  *)
(*   m0        the manifest of the initial packet                          *)
(*   hfrom, hfromT  the packet hdr was projected from (None: from man)     *)
(*   hprev     the Header of the projection before, and its packet         *)
(*   last      the last conversion; arg, argT the content from_obj got     *)
(*   sent      what wire encodes: kind, T and the value (kind "input" for  *)
(*             a received blob)                                            *)
(*   tamper    what was done to wire since: manifest keys dropped, extra   *)
(*             top-level keys added, ctime re-spelled, content overwritten *)
(***************************************************************************)
VARIABLES e, eT, m0, hdr, hfrom, hfromT, hprev, man, last, arg, argT,
          wire, sent, tamper, dec

(***************************************************************************)
(* JSON values.                                                            *)
(***************************************************************************)
JNull == [t |-> "null"]
JStr(s) == [t |-> "str", s |-> s]
JNum(n) == [t |-> "num", n |-> n]
JArr(a) == [t |-> "arr", a |-> a]
JObj(f) == [t |-> "obj", f |-> f]

\* The empty map (an empty HashMap, and the field map of the object {}).
EmptyMap == [k \in {} |-> <<>>]

\* f without the key k.
Without(f, k) == [x \in (DOMAIN f) \ {k} |-> f[x]]

\* f with the key k set to v.
With(f, k, v) == [x \in (DOMAIN f) \cup {k} |-> IF x = k THEN v ELSE f[x]]

(***************************************************************************)
(* Results of a decode: Ok(value) or Err(category).                        *)
(***************************************************************************)
Ok(x) == [ok |-> TRUE, val |-> x]
Err(m) == [ok |-> FALSE, err |-> m]

\* F of the value of x: x is computed once, however often F uses it.
Given(x, F(_)) == CHOOSE r \in {F(y) : y \in {x}} : TRUE

(***************************************************************************)
(* Texts.  A text (a Rust String, a JSON string) is the sequence of its    *)
(* characters.  A character is a string: a printable ASCII character       *)
(* (U+0020 to U+007E) is the one-character string of itself, the tab, the  *)
(* line feed, the form feed and the carriage return are "\t", "\n", "\f"   *)
(* and "\r", and any other character is named by its code point: "U+" and  *)
(* its number in upper-case hexadecimal, of four digits at the least, as   *)
(* in "U+000B", "U+2003" and "U+2212".  So every character of Unicode has  *)
(* one spelling, whatever the encoding of this file.  The keys of objects  *)
(* and of maps are kept whole: they are only ever compared.                *)
(***************************************************************************)
DigitChars == <<"0", "1", "2", "3", "4", "5", "6", "7", "8", "9">>

IsDigit(c) == c \in {"0", "1", "2", "3", "4", "5", "6", "7", "8", "9"}

DigitVal(c) ==
  CASE c = "0" -> 0 [] c = "1" -> 1 [] c = "2" -> 2 [] c = "3" -> 3 [] c = "4" -> 4
    [] c = "5" -> 5 [] c = "6" -> 6 [] c = "7" -> 7 [] c = "8" -> 8 [] c = "9" -> 9

\* The text s holds digits at the positions i..j.
AllDigits(s, i, j) == \A k \in i..j : IsDigit(s[k])

\* The number spelled by the two digits of s from i on.
Num2(s, i) == DigitVal(s[i]) * 10 + DigitVal(s[i + 1])

\* n in two and in four digits.
Pad2(n) == <<DigitChars[((n \div 10) % 10) + 1], DigitChars[(n % 10) + 1]>>
Pad4(n) == Pad2(n \div 100) \o Pad2(n % 100)

(***************************************************************************)
(* DateTime = chrono::DateTime<Utc>: an instant in UTC, held as chrono     *)
(* holds it: the date (here the number of days since 1970-01-01), the      *)
(* second of the day, and the nanoseconds, which exceed 999,999,999        *)
(* within a leap second.  Its encoding is an RFC 3339 text,                *)
(*   YYYY-MM-DDTHH:MM:SS[.fraction](Z | +HH:MM | -HH:MM),                  *)
(* which is what the encoder writes; the decoder reads a relaxed form.     *)
(***************************************************************************)
IsLeapYear(y) == (y % 4 = 0 /\ y % 100 # 0) \/ y % 400 = 0

DaysInMonth(y, m) ==
  IF m = 2 THEN (IF IsLeapYear(y) THEN 29 ELSE 28)
  ELSE IF m \in {4, 6, 9, 11} THEN 30 ELSE 31

\* The number of days from 1970-01-01 to the date y-m-d.
DaysFromCivil(y, m, d) ==
  LET yy  == IF m <= 2 THEN y - 1 ELSE y
      era == yy \div 400
      yoe == yy - era * 400
      mp  == IF m > 2 THEN m - 3 ELSE m + 9
      doy == ((153 * mp + 2) \div 5) + d - 1
      doe == yoe * 365 + (yoe \div 4) - (yoe \div 100) + doy
  IN  era * 146097 + doe - 719468

\* The date, as [y, m, d], that is z days from 1970-01-01.
CivilFromDays(z) ==
  LET zz  == z + 719468
      era == zz \div 146097
      doe == zz - era * 146097
      yoe == (doe - (doe \div 1460) + (doe \div 36524) - (doe \div 146096)) \div 365
      doy == doe - (365 * yoe + (yoe \div 4) - (yoe \div 100))
      mp  == (5 * doy + 2) \div 153
      m   == IF mp < 10 THEN mp + 3 ELSE mp - 9
  IN  [y |-> yoe + era * 400 + (IF m <= 2 THEN 1 ELSE 0),
       m |-> m,
       d |-> doy - ((153 * mp + 2) \div 5) + 1]

\* The characters the scanner skips as white space: those of Rust's
\* char::is_whitespace, which are the characters of Unicode's White_Space.
\* They are the space, U+0009 to U+000D (tab, line feed, vertical tab, form
\* feed, carriage return), the next line U+0085, the no-break space U+00A0,
\* U+1680, the spaces U+2000 to U+200A, the line and paragraph separators
\* U+2028 and U+2029, U+202F, U+205F and the ideographic space U+3000.
WhiteSpace ==
  {" ", "\t", "\n", "U+000B", "\f", "\r", "U+0085", "U+00A0", "U+1680",
   "U+2000", "U+2001", "U+2002", "U+2003", "U+2004", "U+2005", "U+2006",
   "U+2007", "U+2008", "U+2009", "U+200A", "U+2028", "U+2029", "U+202F",
   "U+205F", "U+3000"}

\* The first position from i on that holds no white space (Len(s) + 1 when
\* there is none).
RECURSIVE SkipSpace(_, _)
SkipSpace(s, i) ==
  Given(i, LAMBDA j :
    IF j <= Len(s) /\ s[j] \in WhiteSpace THEN SkipSpace(s, j + 1) ELSE j)

\* The first position from i on that holds neither a colon nor white space.
RECURSIVE SkipColons(_, _)
SkipColons(s, i) ==
  Given(i, LAMBDA j :
    IF j <= Len(s) /\ (s[j] = ":" \/ s[j] \in WhiteSpace) THEN SkipColons(s, j + 1)
    ELSE j)

\* The character c stands at i.
At(s, i, c) == Given(i, LAMBDA j : j <= Len(s) /\ s[j] = c)

\* The years a date can have (chrono's NaiveDate).
MinYear == -262143
MaxYear == 262142

\* The digits of s from i on, max at the most, read into the number acc:
\* the number read and the position after it.  A number beyond every year
\* stops growing: it is out of range whatever follows.
RECURSIVE Digits(_, _, _, _)
Digits(s, i, max, acc) ==
  Given(i, LAMBDA j :
    IF max > 0 /\ j <= Len(s) /\ IsDigit(s[j])
      THEN Digits(s, j + 1, max - 1,
                  IF acc > -MinYear THEN acc ELSE acc * 10 + DigitVal(s[j]))
    ELSE [val |-> acc, next |-> j])

\* A number of one to max digits at i: whether there is one, its value,
\* and the position after it.
Number(s, i, max) ==
  Given(i, LAMBDA j :
    Given(Digits(s, j, max, 0), LAMBDA r :
      [ok |-> r.next > j, val |-> r.val, next |-> r.next]))

\* The nanoseconds spelled by the n fraction digits of s from i on: the
\* first nine count, further digits are dropped.
FractionNanos(s, i, n) ==
  LET digit(k) == IF k <= n THEN DigitVal(s[i + k - 1]) ELSE 0
  IN  ((digit(1) * 100 + digit(2) * 10 + digit(3)) * 1000
         + digit(4) * 100 + digit(5) * 10 + digit(6)) * 1000
         + digit(7) * 100 + digit(8) * 10 + digit(9)

\* The fraction of the second at i: "." and one digit at least, or nothing.
Fraction(s, i) ==
  Given(i, LAMBDA j :
    IF At(s, j, ".")
      THEN Given(Digits(s, j + 1, Len(s), 0).next, LAMBDA k :
             [ok |-> k > j + 1,
              val |-> FractionNanos(s, j + 1, k - (j + 1)),
              next |-> k])
    ELSE [ok |-> TRUE, val |-> 0, next |-> j])

\* The signs of an offset west of UTC: the hyphen-minus and the minus sign
\* U+2212.
MinusSigns == {"-", "U+2212"}

\* The UTC offset at i: Z, UTC in any case, or a sign ("+" or one of the
\* minus signs), two digits of hours, any colons and white space, and two
\* digits of minutes below 60.  Gives whether there is one, its minutes
\* east and the position after it.
Offset(s, i) ==
  Given(i, LAMBDA j :
    IF /\ j + 2 <= Len(s)
       /\ s[j] \in {"U", "u"} /\ s[j + 1] \in {"T", "t"} /\ s[j + 2] \in {"C", "c"}
      THEN [ok |-> TRUE, val |-> 0, next |-> j + 3]
    ELSE IF j <= Len(s) /\ s[j] \in {"Z", "z"}
      THEN [ok |-> TRUE, val |-> 0, next |-> j + 1]
    ELSE IF j + 2 <= Len(s) /\ s[j] \in {"+"} \cup MinusSigns /\ AllDigits(s, j + 1, j + 2)
      THEN Given(SkipColons(s, j + 3), LAMBDA q :
             IF q + 1 <= Len(s) /\ AllDigits(s, q, q + 1) /\ Num2(s, q) <= 59
               THEN [ok |-> TRUE,
                     val |-> (IF s[j] \in MinusSigns THEN -1 ELSE 1)
                               * (Num2(s, j + 1) * 60 + Num2(s, q)),
                     next |-> q + 2]
             ELSE [ok |-> FALSE, val |-> 0, next |-> j])
    ELSE [ok |-> FALSE, val |-> 0, next |-> j])

\* chrono's str::parse for DateTime reads a relaxed RFC 3339: the date,
\* one of "T", "t" and " ", the time, and the offset.  White space may
\* precede every number, "-", ":" and the offset, and may follow the offset.
\*
\* The date at the start of s: year, "-", month, "-", day.  The year has
\* one to four digits, or a sign and any count of digits; month and day
\* have one or two.
ScanDate(s) ==
  LET p0 == SkipSpace(s, 1)
      y  == IF At(s, p0, "+") \/ At(s, p0, "-") THEN Number(s, p0 + 1, Len(s))
            ELSE Number(s, p0, 4)
      d1 == SkipSpace(s, y.next)
      mo == Number(s, SkipSpace(s, d1 + 1), 2)
      d2 == SkipSpace(s, mo.next)
      da == Number(s, SkipSpace(s, d2 + 1), 2)
  IN  [ok    |-> y.ok /\ At(s, d1, "-") /\ mo.ok /\ At(s, d2, "-") /\ da.ok,
       year  |-> IF At(s, p0, "-") THEN -y.val ELSE y.val,
       month |-> mo.val,
       day   |-> da.val,
       next  |-> da.next]

\* The time of s at i: hour, ":", minute, ":", second, each of one or two
\* digits, and the fraction.
ScanTime(s, i) ==
  LET h  == Number(s, SkipSpace(s, i), 2)
      c1 == SkipSpace(s, h.next)
      mi == Number(s, SkipSpace(s, c1 + 1), 2)
      c2 == SkipSpace(s, mi.next)
      se == Number(s, SkipSpace(s, c2 + 1), 2)
      fr == Fraction(s, se.next)
  IN  [ok     |-> h.ok /\ At(s, c1, ":") /\ mi.ok /\ At(s, c2, ":") /\ se.ok /\ fr.ok,
       hour   |-> h.val,
       minute |-> mi.val,
       second |-> se.val,
       nanos  |-> fr.val,
       next   |-> fr.next]

\* The scan of the timestamp text s: whether the whole text is a
\* timestamp, white space at its end apart, and the fields read.
Rfc3339Scan(s) ==
  Given(ScanDate(s), LAMBDA d :
    Given(ScanTime(s, d.next + 1), LAMBDA t :
      Given(Offset(s, SkipSpace(s, t.next)), LAMBDA z :
        [ok |-> /\ d.ok
                /\ d.next <= Len(s) /\ s[d.next] \in {"T", "t", " "}
                /\ t.ok
                /\ z.ok /\ SkipSpace(s, z.next) = Len(s) + 1,
         f  |-> [year |-> d.year, month |-> d.month, day |-> d.day,
                 hour |-> t.hour, minute |-> t.minute, second |-> t.second,
                 nanos |-> t.nanos, off |-> z.val]])))

\* The fields f are a date and a time that exist, at an offset of less
\* than a day.
ValidFields(f) ==
  /\ f.year \in MinYear..MaxYear
  /\ f.month \in 1..12
  /\ f.day \in 1..DaysInMonth(f.year, f.month)
  /\ f.hour <= 23 /\ f.minute <= 59 /\ f.second <= 60
  /\ f.off \in -1439..1439

\* The instant the valid fields f spell: the local time moved to UTC by
\* the offset.  A second of 60 is a leap second: second 59 and a further
\* 1,000,000,000 nanoseconds.
Instant(f) ==
  Given(f.hour * 3600 + f.minute * 60 + (IF f.second = 60 THEN 59 ELSE f.second)
          - f.off * 60, LAMBDA utc :
    [days  |-> DaysFromCivil(f.year, f.month, f.day) + (utc \div 86400),
     secs  |-> utc % 86400,
     nanos |-> f.nanos + (IF f.second = 60 THEN 1000000000 ELSE 0)])

\* The instant d falls on a day a date can name: the offset has not moved
\* it before the first day of MinYear or after the last day of MaxYear.
InRange(d) ==
  d.days \in DaysFromCivil(MinYear, 1, 1)..DaysFromCivil(MaxYear, 12, 31)

\* Decoding a DateTime: the value must be a text that is a timestamp, of
\* fields that exist and of an instant within range.
Deserialize_DateTime(v) ==
  IF v.t # "str" THEN Err("invalid type")
  ELSE Given(Rfc3339Scan(v.s), LAMBDA r :
         IF ~r.ok THEN Err("invalid value")
         ELSE IF ~ValidFields(r.f) THEN Err("invalid value")
         ELSE Given(Instant(r.f), LAMBDA d :
                IF InRange(d) THEN Ok(d) ELSE Err("invalid value")))

\* The fraction the encoder writes for the nanoseconds n: none when n is 0,
\* else three, six or nine digits, the fewest that lose nothing.
FractionText(n) ==
  LET ms == Pad2(n \div 10000000) \o <<DigitChars[((n \div 1000000) % 10) + 1]>>
      us == Pad2((n \div 10000) % 100) \o <<DigitChars[((n \div 1000) % 10) + 1]>>
      ns == Pad2((n \div 10) % 100) \o <<DigitChars[(n % 10) + 1]>>
  IN  IF n = 0 THEN <<>>
      ELSE IF n % 1000000 = 0 THEN <<".">> \o ms
      ELSE IF n % 1000 = 0 THEN <<".">> \o ms \o us
      ELSE <<".">> \o ms \o us \o ns

\* The year y as the encoder writes it: four digits, or a sign and at least
\* four digits when it is not within 0..9999.
YearText(y) ==
  LET a == IF y < 0 THEN -y ELSE y
      high == IF a >= 100000 THEN Pad2(a \div 10000)
              ELSE IF a >= 10000 THEN <<DigitChars[(a \div 10000) + 1]>>
              ELSE <<>>
  IN  IF y \in 0..9999 THEN Pad4(y)
      ELSE <<IF y < 0 THEN "-" ELSE "+">> \o high \o Pad4(a % 10000)

\* The UTC spelling of the instant d, its fraction given.
UtcText(d, fraction) ==
  Given(CivilFromDays(d.days), LAMBDA c :
    YearText(c.y) \o <<"-">> \o Pad2(c.m) \o <<"-">> \o Pad2(c.d) \o <<"T">>
      \o Pad2(d.secs \div 3600) \o <<":">> \o Pad2((d.secs % 3600) \div 60)
      \o <<":">> \o Pad2((d.secs % 60) + (IF d.nanos >= 1000000000 THEN 1 ELSE 0))
      \o fraction \o <<"Z">>)

\* An encoder that writes whole seconds only.
Serialize_DateTime_whole_seconds(d) ==
  JStr(UtcText(d, <<>>))

\* Encoding a DateTime<Utc>: always the UTC spelling, with the "Z" designator.
Serialize_DateTime(d) ==
  JStr(UtcText(d, FractionText(d.nanos % 1000000000)))

(***************************************************************************)
(* Primitive decoders and encoders.                                        *)
(***************************************************************************)
\* A String decoder that takes any value, anything but a text as the
\* empty text.
Deserialize_String_lenient(v) ==
  Ok(IF v.t = "str" THEN v.s ELSE <<>>)

Deserialize_String(v) ==
  IF v.t = "str" THEN Ok(v.s) ELSE Err("invalid type")

\* u64: a number that is not negative.
Deserialize_U64(v) ==
  IF v.t # "num" THEN Err("invalid type")
  ELSE IF v.n < 0 THEN Err("invalid value")
  ELSE Ok(v.n)

\* An unsigned integer of a narrower width (u8, u16), max its largest value.
Deserialize_Unsigned(v, max) ==
  IF v.t # "num" THEN Err("invalid type")
  ELSE IF v.n < 0 \/ v.n > max THEN Err("invalid value")
  ELSE Ok(v.n)

\* HashMap<String, String>: an object all of whose values are strings.
Deserialize_Labels(v) ==
  IF v.t # "obj" THEN Err("invalid type")
  ELSE IF \E k \in DOMAIN v.f : v.f[k].t # "str" THEN Err("invalid type")
  ELSE Ok([k \in DOMAIN v.f |-> v.f[k].s])

Serialize_Labels(l) == JObj([k \in DOMAIN l |-> JStr(l[k])])

\* Vec<u8>
Deserialize_VecU8(v) ==
  IF v.t # "arr" THEN Err("invalid type")
  ELSE IF \E i \in DOMAIN v.a : ~Deserialize_Unsigned(v.a[i], 255).ok
       THEN Err("invalid value")
  ELSE Ok([i \in DOMAIN v.a |-> v.a[i].n])

Serialize_VecU8(s) == JArr([i \in DOMAIN s |-> JNum(s[i])])

(***************************************************************************)
(* A derived struct decoder reads an object by field name, or an array by  *)
(* field position.  FieldsOf gives the fields the decoder sees, by name,   *)
(* or an error when the value is neither or the array is too long.         *)
(***************************************************************************)
FieldsOf(v, names) ==
  IF v.t = "obj" THEN Ok(v.f)
  ELSE IF v.t = "arr" THEN
    IF Len(v.a) > Len(names) THEN Err("invalid length")
    ELSE Ok([k \in {names[i] : i \in 1..Len(v.a)} |->
               v.a[CHOOSE i \in 1..Len(v.a) : names[i] = k]])
  ELSE Err("invalid type")

(***************************************************************************)
(* Manifest (serde::Serialize, serde::Deserialize derived).                *)
(***************************************************************************)
ManifestFields == <<"domain", "scope", "kind", "version", "origin", "ctime", "labels">>
ManifestKeys == {ManifestFields[i] : i \in DOMAIN ManifestFields}

\* The decoder of the field named k.
Deserialize_ManifestField(k, v) ==
  CASE k = "version" -> Deserialize_U64(v)
    [] k = "ctime"   -> Deserialize_DateTime(v)
    [] k = "labels"  -> Deserialize_Labels(v)
    [] OTHER         -> Deserialize_String(v)

\* The derived decoder of Manifest, given the defaults of the fields that
\* have one: a field present is decoded, a field absent takes its default,
\* and a field absent that has none fails the decode.  Fields the struct
\* does not declare are ignored.
Deserialize_ManifestBy(v, defaults) ==
  Given(FieldsOf(v, ManifestFields), LAMBDA fs :
    IF ~fs.ok THEN fs
    ELSE Given([k \in ManifestKeys \cap DOMAIN fs.val |->
                  Deserialize_ManifestField(k, fs.val[k])], LAMBDA read :
           LET field(k) == IF k \in DOMAIN read THEN read[k].val ELSE defaults[k]
           IN  IF \E k \in DOMAIN read : ~read[k].ok
                 THEN Err("invalid field")
               ELSE IF ~((ManifestKeys \ DOMAIN defaults) \subseteq DOMAIN read)
                 THEN Err("missing field")
               ELSE Ok([domain  |-> field("domain"),
                        scope   |-> field("scope"),
                        kind    |-> field("kind"),
                        version |-> field("version"),
                        origin  |-> field("origin"),
                        ctime   |-> field("ctime"),
                        labels  |-> field("labels")])))

\* A Manifest whose origin is #[serde(default)] as well.
Deserialize_Manifest_default_origin(v) ==
  Deserialize_ManifestBy(v, [labels |-> EmptyMap, origin |-> <<>>])

\* labels is #[serde(default)]: the only field with a default.
Deserialize_Manifest(v) ==
  Deserialize_ManifestBy(v, [labels |-> EmptyMap])

\* The derived encoder of Manifest: one field per declared field, labels
\* left out when skipEmpty holds and the map has no entries.
Serialize_ManifestBy(m, skipEmpty) ==
  LET base == [domain  |-> JStr(m.domain),
               scope   |-> JStr(m.scope),
               kind    |-> JStr(m.kind),
               version |-> JNum(m.version),
               origin  |-> JStr(m.origin),
               ctime   |-> Serialize_DateTime(m.ctime)]
  IN  IF skipEmpty /\ DOMAIN m.labels = {} THEN JObj(base)
      ELSE JObj(With(base, "labels", Serialize_Labels(m.labels)))

\* A Manifest without the skip_serializing_if attribute.
Serialize_Manifest_always_labels(m) ==
  Serialize_ManifestBy(m, FALSE)

\* labels is skip_serializing_if = "HashMap::is_empty".
Serialize_Manifest(m) ==
  Serialize_ManifestBy(m, TRUE)

(***************************************************************************)
(* Header                                                                  *)
(***************************************************************************)
\* The derived decoder of Header; strict is deny_unknown_fields.
Deserialize_HeaderBy(v, strict) ==
  Given(FieldsOf(v, <<"manifest">>), LAMBDA fs :
    IF ~fs.ok THEN fs
    ELSE IF strict /\ ~(DOMAIN fs.val \subseteq {"manifest"}) THEN Err("unknown field")
    ELSE IF "manifest" \notin DOMAIN fs.val THEN Err("missing field")
    ELSE Given(Deserialize_Manifest(fs.val["manifest"]), LAMBDA m :
           IF ~m.ok THEN m ELSE Ok([manifest |-> m.val])))

\* A Header that is #[serde(deny_unknown_fields)].
Deserialize_Header_strict(v) ==
  Deserialize_HeaderBy(v, TRUE)

Deserialize_Header(v) ==
  Deserialize_HeaderBy(v, FALSE)

Serialize_Header(h) == JObj([manifest |-> Serialize_Manifest(h.manifest)])

\* A projection that looks at the payload: it renames the kind of a packet
\* of strings.
Header_from_Packet_inspecting(data) ==
  IF eT = "String"
    THEN [manifest |-> [data.manifest EXCEPT
                          !.kind = <<"s", "t", "r", "i", "n", "g">>]]
  ELSE [manifest |-> data.manifest]

\* impl<T> From<Packet<T>> for Header
Header_from_Packet(data) == [manifest |-> data.manifest]

\* impl From<Manifest> for Header
Header_from_Manifest(manifest) == [manifest |-> manifest]

\* An unwrapping that loses the creation time's sub-second part.
Manifest_from_Packet_truncating(data) ==
  [data.manifest EXCEPT !.ctime.nanos = 0]

\* impl<T> From<Packet<T>> for Manifest
Manifest_from_Packet(data) == data.manifest

\* A composition that starts from a manifest without labels.
Packet_from_obj_unlabelled(obj, content) ==
  [manifest |-> [obj.manifest EXCEPT !.labels = EmptyMap], content |-> content]

\* Packet::from_obj
Packet_from_obj(obj, content) == [manifest |-> obj.manifest, content |-> content]

(***************************************************************************)
(* The content types: String, and the CpuMetrics of the crate's tests.     *)
(***************************************************************************)
Types == {"String", "CpuMetrics"}

CpuMetricsFields == <<"begin", "end", "interval_seconds", "idle_percent">>
CpuMetricsKeys == {CpuMetricsFields[i] : i \in DOMAIN CpuMetricsFields}

Deserialize_CpuMetricsField(k, v) ==
  CASE k = "interval_seconds" -> Deserialize_Unsigned(v, 65535)
    [] k = "idle_percent"     -> Deserialize_VecU8(v)
    [] OTHER                  -> Deserialize_DateTime(v)

Deserialize_CpuMetrics(v) ==
  Given(FieldsOf(v, CpuMetricsFields), LAMBDA fs :
    IF ~fs.ok THEN fs
    ELSE Given([k \in CpuMetricsKeys \cap DOMAIN fs.val |->
                  Deserialize_CpuMetricsField(k, fs.val[k])], LAMBDA read :
           IF \E k \in DOMAIN read : ~read[k].ok
             THEN Err("invalid field")
           ELSE IF DOMAIN read # CpuMetricsKeys
             THEN Err("missing field")
           ELSE Ok([begin            |-> read["begin"].val,
                    end              |-> read["end"].val,
                    interval_seconds |-> read["interval_seconds"].val,
                    idle_percent     |-> read["idle_percent"].val])))

Serialize_CpuMetrics(c) ==
  JObj([begin            |-> Serialize_DateTime(c.begin),
        end              |-> Serialize_DateTime(c.end),
        interval_seconds |-> JNum(c.interval_seconds),
        idle_percent     |-> Serialize_VecU8(c.idle_percent)])

\* A content decoder that falls back to a default value of T when the shape
\* does not fit.
Deserialize_Content_defaulting(T, v) ==
  IF T = "String"
    THEN (IF v.t = "str" THEN Ok(v.s) ELSE Ok(<<>>))
    ELSE Given(Deserialize_CpuMetrics(v), LAMBDA c :
           IF c.ok THEN c
           ELSE Ok([begin |-> [days |-> 0, secs |-> 0, nanos |-> 0],
                    end |-> [days |-> 0, secs |-> 0, nanos |-> 0],
                    interval_seconds |-> 0, idle_percent |-> <<>>]))

\* The decoder and the encoder of a content of type T.
Deserialize_Content(T, v) ==
  IF T = "String" THEN Deserialize_String(v) ELSE Deserialize_CpuMetrics(v)

Serialize_Content(T, c) ==
  IF T = "String" THEN JStr(c) ELSE Serialize_CpuMetrics(c)

(***************************************************************************)
(* Packet<T>                                                               *)
(***************************************************************************)
\* The derived decoder of Packet<T>; strict is deny_unknown_fields.
Deserialize_PacketBy(T, v, strict) ==
  Given(FieldsOf(v, <<"manifest", "content">>), LAMBDA fs :
    IF ~fs.ok THEN fs
    ELSE Given([k \in {"manifest", "content"} \cap DOMAIN fs.val |->
                  IF k = "manifest" THEN Deserialize_Manifest(fs.val[k])
                  ELSE Deserialize_Content(T, fs.val[k])], LAMBDA read :
           IF strict /\ ~(DOMAIN fs.val \subseteq {"manifest", "content"})
             THEN Err("unknown field")
           ELSE IF \E k \in DOMAIN read : ~read[k].ok
             THEN Err("invalid field")
           ELSE IF DOMAIN read # {"manifest", "content"}
             THEN Err("missing field")
           ELSE Ok([manifest |-> read["manifest"].val,
                    content  |-> read["content"].val])))

\* A Packet that is #[serde(deny_unknown_fields)].
Deserialize_Packet_strict(T, v) ==
  Deserialize_PacketBy(T, v, TRUE)

Deserialize_Packet(T, v) ==
  Deserialize_PacketBy(T, v, FALSE)

Serialize_Packet(T, p) ==
  JObj([manifest |-> Serialize_Manifest(p.manifest),
        content  |-> Serialize_Content(T, p.content)])

(***************************************************************************)
(* The values the model draws its inputs from.                             *)
(***************************************************************************)
\* The texts of the fixtures and of the documentation's example.
S_example_org == <<"e", "x", "a", "m", "p", "l", "e", ".", "o", "r", "g">>
S_metrics == <<"m", "e", "t", "r", "i", "c", "s">>
S_cpu == <<"c", "p", "u">>
S_host_03 == <<"h", "o", "s", "t", "-", "0", "3">>
S_bar == <<"b", "a", "r">>
S_2_3_1 == <<"2", ".", "3", ".", "1">>
S_hello == <<"h", "e", "l", "l", "o">>
S_doc_scope ==
  <<"m", "e", "t", "r", "i", "c", "s", "/", "a", "p", "p", "l", "i", "c",
    "a", "t", "i", "o", "n", "s", "/", "s", "o", "m", "e", "-", "a", "p",
    "p">>
S_useractions == <<"u", "s", "e", "r", "a", "c", "t", "i", "o", "n", "s">>
S_doc_origin ==
  <<"s", "o", "m", "e", "-", "a", "p", "p", "-", "0", "3", ".", "e", "x",
    "a", "m", "p", "l", "e", ".", "o", "r", "g">>
S_oops == <<"o", "o", "p", "s">>

\* Timestamp texts: the creation time of the documentation's example, the
\* same instant spelled two hours east, spelled with a form feed before
\* the "Z" and a space and an em space (U+2003) after it, with a fraction,
\* ten seconds later, and half past midnight of the next day spelled in
\* UTC, one hour west, and one hour west with the minus sign U+2212 and an
\* ideographic space (U+3000) before the minutes.
T_14_41_40 ==
  <<"2", "0", "2", "0", "-", "0", "8", "-", "2", "5", "T", "1", "4", ":",
    "4", "1", ":", "4", "0", "Z">>

T_16_41_40_plus2 ==
  <<"2", "0", "2", "0", "-", "0", "8", "-", "2", "5", "T", "1", "6", ":",
    "4", "1", ":", "4", "0", "+", "0", "2", ":", "0", "0">>

T_14_41_40_spaced ==
  <<"2", "0", "2", "0", "-", "0", "8", "-", "2", "5", "T", "1", "4", ":",
    "4", "1", ":", "4", "0", "\f", "Z", " ", "U+2003">>

T_14_41_40_250 ==
  <<"2", "0", "2", "0", "-", "0", "8", "-", "2", "5", "T", "1", "4", ":",
    "4", "1", ":", "4", "0", ".", "2", "5", "0", "Z">>

T_next_00_30 ==
  <<"2", "0", "2", "0", "-", "0", "8", "-", "2", "6", "T", "0", "0", ":",
    "3", "0", ":", "0", "0", "Z">>

T_23_30_minus1 ==
  <<"2", "0", "2", "0", "-", "0", "8", "-", "2", "5", "T", "2", "3", ":",
    "3", "0", ":", "0", "0", "-", "0", "1", ":", "0", "0">>

T_23_30_minus_sign ==
  <<"2", "0", "2", "0", "-", "0", "8", "-", "2", "5", "T", "2", "3", ":",
    "3", "0", ":", "0", "0", "U+2212", "0", "1", ":", "U+3000", "0", "0">>

T_14_41_50 ==
  <<"2", "0", "2", "0", "-", "0", "8", "-", "2", "5", "T", "1", "4", ":",
    "4", "1", ":", "5", "0", "Z">>

Spellings == {T_14_41_40, T_16_41_40_plus2, T_14_41_40_spaced, T_14_41_40_250,
              T_next_00_30, T_23_30_minus1, T_23_30_minus_sign, T_14_41_50}

\* What each of the spellings decodes to.
SpellingInstants == [txt \in Spellings |-> Deserialize_DateTime(JStr(txt))]

CTimes == {Deserialize_DateTime(JStr(txt)).val :
             txt \in {T_14_41_40_250, T_next_00_30}}

LabelMaps == {EmptyMap, ("foo" :> S_bar) @@ ("app-version" :> S_2_3_1)}

Manifests ==
  [domain : {S_example_org}, scope : {S_metrics}, kind : {S_cpu},
   version : 1..MaxVersion, origin : {S_host_03}, ctime : CTimes,
   labels : LabelMaps]

IdleSamples == {<<80, 81, 85, 90, 91, 92>>}

ContentsOf(T) ==
  IF T = "String" THEN {S_hello}
  ELSE [begin : {Deserialize_DateTime(JStr(T_14_41_40)).val},
        end : {Deserialize_DateTime(JStr(T_14_41_50)).val},
        interval_seconds : {10},
        idle_percent : IdleSamples]

PacketsOf(T) == [manifest : Manifests, content : ContentsOf(T)]

None == [none |-> TRUE]

(***************************************************************************)
(* Blobs a consumer may receive that no encoder of this model produced.    *)
(***************************************************************************)
\* The JSON example of the Manifest documentation.
DocExampleBlob ==
  JObj([manifest |->
    JObj([domain  |-> JStr(S_example_org),
          scope   |-> JStr(S_doc_scope),
          kind    |-> JStr(S_useractions),
          version |-> JNum(2),
          origin  |-> JStr(S_doc_origin),
          ctime   |-> JStr(T_14_41_40),
          labels  |-> JObj("app-version" :> JStr(S_2_3_1))])])

CpuManifestBlob ==
  JObj([domain  |-> JStr(S_example_org),
        scope   |-> JStr(S_metrics),
        kind    |-> JStr(S_cpu),
        version |-> JNum(1),
        origin  |-> JStr(S_host_03),
        ctime   |-> JStr(T_14_41_40),
        labels  |-> JObj([foo |-> JStr(S_bar)])])

IdleBlob == JArr(<<JNum(80), JNum(81), JNum(85), JNum(90), JNum(91), JNum(92)>>)

\* The blob test_json_cpu_metrics reads: top-level keys manifest and
\* content, the content a whole CpuMetrics.
CpuFixtureBlob ==
  JObj([manifest |-> CpuManifestBlob,
        content  |-> JObj([begin            |-> JStr(T_14_41_40),
                           end              |-> JStr(T_14_41_50),
                           interval_seconds |-> JNum(10),
                           idle_percent     |-> IdleBlob])])

\* The same data under the top-level key payload, without begin and end.
PayloadKeyBlob ==
  JObj([manifest |-> CpuManifestBlob,
        payload  |-> JObj([interval_seconds |-> JNum(10),
                           idle_percent     |-> IdleBlob])])

\* A packet written as arrays, field by position.
PositionalBlob ==
  JArr(<<JArr(<<JStr(S_example_org), JStr(S_metrics), JStr(S_cpu), JNum(1),
                JStr(S_host_03), JStr(T_16_41_40_plus2)>>),
         JStr(S_hello)>>)

InputBlobs == {DocExampleBlob, CpuFixtureBlob, PayloadKeyBlob, PositionalBlob}

\* Content values of another shape, written over the content of a blob.
ForeignContents ==
  {JStr(S_oops), JObj([interval_seconds |-> JNum(10)]), JNull,
   CpuFixtureBlob.f["content"]}

\* Extra fields a blob may carry beyond the declared ones.
ExtraKeys == {"payload", "trace_id"}
ExtraValues == {JObj([data |-> JNum(1)])}

convVars == <<e, eT, hdr, hfrom, hfromT, hprev, man, last, arg, argT>>
codecVars == <<wire, sent, tamper, dec>>
vars == <<e, eT, m0, hdr, hfrom, hfromT, hprev, man, last, arg, argT,
          wire, sent, tamper, dec>>

Untouched == [dropped |-> {}, extra |-> {}, rezoned |-> FALSE, content |-> FALSE]

\* The number of changes made to the blob in hand.
TamperCount ==
  Cardinality(tamper.dropped) + Cardinality(tamper.extra)
    + (IF tamper.rezoned THEN 1 ELSE 0) + (IF tamper.content THEN 1 ELSE 0)

Init ==
  /\ eT \in Types
  /\ e \in PacketsOf(eT)
  /\ m0 = e.manifest
  /\ hdr = None /\ hfrom = None /\ hfromT = "-" /\ hprev = None
  /\ man = None
  /\ last = "new" /\ arg = None /\ argT = "-"
  /\ wire = None
  /\ sent = [kind |-> "none", T |-> "-", val |-> None, re |-> FALSE]
  /\ tamper = Untouched
  /\ dec = None

(***************************************************************************)
(* Conversions.                                                            *)
(***************************************************************************)
\* Header::from(packet)
IntoHeader ==
  /\ hdr' = Header_from_Packet(e)
  /\ hfrom' = e /\ hfromT' = eT
  /\ hprev' = IF hfrom # None THEN [h |-> hdr, from |-> hfrom, T |-> hfromT] ELSE hprev
  /\ last' = "Header::from(Packet)"
  /\ UNCHANGED <<e, eT, m0, man, arg, argT>>
  /\ UNCHANGED codecVars

\* Header::from(manifest)
WrapManifest ==
  /\ man # None
  /\ hdr' = Header_from_Manifest(man)
  /\ hfrom' = None /\ hfromT' = "-"
  /\ last' = "Header::from(Manifest)"
  /\ UNCHANGED <<e, eT, m0, hprev, man, arg, argT>>
  /\ UNCHANGED codecVars

\* Manifest::from(packet)
IntoManifest ==
  /\ man' = Manifest_from_Packet(e)
  /\ last' = "Manifest::from(Packet)"
  /\ UNCHANGED <<e, eT, m0, hdr, hfrom, hfromT, hprev, arg, argT>>
  /\ UNCHANGED codecVars

\* Packet::from_obj(hdr, c), c a content of any type T
FromObj(T, c) ==
  /\ hdr # None
  /\ e' = Packet_from_obj(hdr, c)
  /\ eT' = T
  /\ arg' = c /\ argT' = T
  /\ last' = "Packet::from_obj"
  /\ UNCHANGED <<m0, hdr, hfrom, hfromT, hprev, man>>
  /\ UNCHANGED codecVars

NextConv ==
  \/ IntoHeader
  \/ WrapManifest
  \/ IntoManifest
  \/ \E T \in Types : \E c \in ContentsOf(T) : FromObj(T, c)

SpecConv == Init /\ [][NextConv]_vars

(***************************************************************************)
(* Encoding, receiving and decoding blobs.  A behaviour follows one blob:  *)
(* it is encoded or received, changed on its way, decoded into one target, *)
(* and what was decoded may be encoded again.  Every blob, every change    *)
(* and every target starts a behaviour of its own.                         *)
(***************************************************************************)
\* serde_json::to_string(&packet)
EncodePacket ==
  /\ wire = None
  /\ wire' = Serialize_Packet(eT, e)
  /\ sent' = [kind |-> "Packet", T |-> eT, val |-> e, re |-> FALSE]
  /\ tamper' = Untouched /\ dec' = None
  /\ UNCHANGED m0 /\ UNCHANGED convVars

\* serde_json::to_string(&Header::from(packet))
EncodeHeader ==
  /\ wire = None
  /\ wire' = Serialize_Header(Header_from_Packet(e))
  /\ sent' = [kind |-> "Header", T |-> "-", val |-> Header_from_Packet(e), re |-> FALSE]
  /\ tamper' = Untouched /\ dec' = None
  /\ UNCHANGED m0 /\ UNCHANGED convVars

\* serde_json::to_string(&Manifest::from(packet))
EncodeManifest ==
  /\ wire = None
  /\ wire' = Serialize_Manifest(Manifest_from_Packet(e))
  /\ sent' = [kind |-> "Manifest", T |-> "-", val |-> Manifest_from_Packet(e), re |-> FALSE]
  /\ tamper' = Untouched /\ dec' = None
  /\ UNCHANGED m0 /\ UNCHANGED convVars

\* A blob arrives from elsewhere.
Receive(b) ==
  /\ wire = None
  /\ wire' = b
  /\ sent' = [kind |-> "input", T |-> "-", val |-> b, re |-> FALSE]
  /\ tamper' = Untouched /\ dec' = None
  /\ UNCHANGED m0 /\ UNCHANGED convVars

\* The manifest object of the blob w: w itself when w encodes a Manifest,
\* the value of its key manifest otherwise.
Nested == sent.kind # "Manifest"
ManifestObj(w) == IF Nested THEN w.f["manifest"] ELSE w
HasManifestObj(w) ==
  /\ w # None /\ w.t = "obj"
  /\ Nested => ("manifest" \in DOMAIN w.f /\ w.f["manifest"].t = "obj")
SetManifestObj(w, mo) == IF Nested THEN JObj(With(w.f, "manifest", mo)) ELSE mo

\* The blob in hand loses the manifest field k.
DropField(k) ==
  /\ HasManifestObj(wire)
  /\ k \in DOMAIN ManifestObj(wire).f
  /\ TamperCount < MaxTamper
  /\ wire' = SetManifestObj(wire, JObj(Without(ManifestObj(wire).f, k)))
  /\ tamper' = [tamper EXCEPT !.dropped = @ \cup {k}]
  /\ dec' = None
  /\ UNCHANGED <<m0, sent>> /\ UNCHANGED convVars

\* The blob in hand gains a top-level field no target type declares.
AddExtra(k, v) ==
  /\ wire # None /\ wire.t = "obj"
  /\ k \notin DOMAIN wire.f
  /\ TamperCount < MaxTamper
  /\ wire' = JObj(With(wire.f, k, v))
  /\ tamper' = [tamper EXCEPT !.extra = @ \cup {k}]
  /\ dec' = None
  /\ UNCHANGED <<m0, sent>> /\ UNCHANGED convVars

\* The ctime of the blob in hand is spelled in another offset: another
\* text of the same instant.
Rezone(txt) ==
  /\ TamperCount < MaxTamper
  /\ HasManifestObj(wire)
  /\ "ctime" \in DOMAIN ManifestObj(wire).f
  /\ Given(ManifestObj(wire).f["ctime"], LAMBDA old :
       /\ JStr(txt) # old
       /\ Given(Deserialize_DateTime(old), LAMBDA r :
            r.ok /\ SpellingInstants[txt] = r))
  /\ wire' = SetManifestObj(wire, JObj(With(ManifestObj(wire).f, "ctime", JStr(txt))))
  /\ tamper' = [tamper EXCEPT !.rezoned = TRUE]
  /\ dec' = None
  /\ UNCHANGED <<m0, sent>> /\ UNCHANGED convVars

\* The content of the blob in hand is overwritten by another value.
OverwriteContent(v) ==
  /\ wire # None /\ wire.t = "obj"
  /\ "content" \in DOMAIN wire.f
  /\ v # wire.f["content"]
  /\ TamperCount < MaxTamper
  /\ wire' = JObj(With(wire.f, "content", v))
  /\ tamper' = [tamper EXCEPT !.content = TRUE]
  /\ dec' = None
  /\ UNCHANGED <<m0, sent>> /\ UNCHANGED convVars

\* serde_json::from_str::<Header>(&blob)
DecodeHeader ==
  /\ wire # None /\ dec = None
  /\ dec' = [target |-> "Header", T |-> "-", r |-> Deserialize_Header(wire)]
  /\ UNCHANGED <<m0, wire, sent, tamper>> /\ UNCHANGED convVars

\* serde_json::from_str::<Manifest>(&blob)
DecodeManifest ==
  /\ wire # None /\ dec = None
  /\ dec' = [target |-> "Manifest", T |-> "-", r |-> Deserialize_Manifest(wire)]
  /\ UNCHANGED <<m0, wire, sent, tamper>> /\ UNCHANGED convVars

\* serde_json::from_str::<Packet<T>>(&blob)
DecodePacket(T) ==
  /\ wire # None /\ dec = None
  /\ dec' = [target |-> "Packet", T |-> T, r |-> Deserialize_Packet(T, wire)]
  /\ UNCHANGED <<m0, wire, sent, tamper>> /\ UNCHANGED convVars

\* The value just decoded is encoded again.
ReEncode ==
  /\ dec # None /\ dec.r.ok
  /\ wire' = CASE dec.target = "Header"   -> Serialize_Header(dec.r.val)
               [] dec.target = "Manifest" -> Serialize_Manifest(dec.r.val)
               [] dec.target = "Packet"   -> Serialize_Packet(dec.T, dec.r.val)
  /\ sent' = [kind |-> dec.target, T |-> dec.T, val |-> dec.r.val, re |-> TRUE]
  /\ tamper' = Untouched /\ dec' = None
  /\ UNCHANGED m0 /\ UNCHANGED convVars

Next ==
  \/ EncodePacket
  \/ EncodeHeader
  \/ EncodeManifest
  \/ \E b \in InputBlobs : Receive(b)
  \/ \E k \in ManifestKeys : DropField(k)
  \/ \E k \in ExtraKeys : \E v \in ExtraValues : AddExtra(k, v)
  \/ \E txt \in Spellings : Rezone(txt)
  \/ \E v \in ForeignContents : OverwriteContent(v)
  \/ DecodeHeader
  \/ DecodeManifest
  \/ \E T \in Types : DecodePacket(T)
  \/ ReEncode

Spec == Init /\ [][Next]_vars

(***************************************************************************)
(* Properties of the conversions (checked under SpecConv).                 *)
(***************************************************************************)
\* Two manifests agree in each of the seven fields.
FieldEqual(m1, m2) ==
  /\ m1.domain = m2.domain
  /\ m1.scope = m2.scope
  /\ m1.kind = m2.kind
  /\ m1.version = m2.version
  /\ m1.origin = m2.origin
  /\ m1.ctime = m2.ctime
  /\ m1.labels = m2.labels

\* hdr was projected from a packet and from_obj has just paired it with
\* that packet's own content.
Recomposed ==
  /\ last = "Packet::from_obj"
  /\ hfrom # None
  /\ hfromT = argT
  /\ arg = hfrom.content

\* C1: composing the Header projected from an envelope with the envelope's
\* own content gives an envelope equal to it in the seven manifest fields
\* and in the content.
C1_CompositionEquivalence ==
  Recomposed => /\ FieldEqual(e.manifest, hfrom.manifest)
                /\ e.content = hfrom.content

C1_Witness ==
  /\ Recomposed
  /\ DOMAIN hfrom.manifest.labels # {}
  /\ hfromT = "CpuMetrics"
  /\ e = hfrom

\* C8: the projection Header::from(Packet<T>) always yields the packet's
\* manifest, and two packets with equal manifests project to equal
\* Headers whatever their payloads and payload types are.
C8_ProjectionIgnoresPayload ==
  /\ (hdr # None /\ hfrom # None) => FieldEqual(hdr.manifest, hfrom.manifest)
  /\ (hprev # None /\ hfrom # None /\ FieldEqual(hprev.from.manifest, hfrom.manifest))
       => hdr = hprev.h

C8_Witness ==
  /\ hprev # None /\ hfrom # None
  /\ hprev.T # hfromT
  /\ FieldEqual(hprev.from.manifest, hfrom.manifest)
  /\ hdr = hprev.h

\* C10: every conversion carries the manifest through unchanged, so the
\* packet, the Header and the Manifest in hand all hold the manifest the
\* chain started from; from_obj returns the content it was given; and
\* Manifest::from(e) is Header::from(e).manifest.
C10_ManifestPreserved ==
  /\ FieldEqual(e.manifest, m0)
  /\ hdr # None => FieldEqual(hdr.manifest, m0)
  /\ man # None => FieldEqual(man, m0)
  /\ (last = "Packet::from_obj" /\ eT = argT) => e.content = arg
  /\ (man # None /\ hdr # None) => man = hdr.manifest

\* A chain of three: unwrap, wrap, compose with a content of another type.
C10_Witness ==
  /\ last = "Packet::from_obj"
  /\ man # None /\ hdr # None /\ hfrom = None
  /\ m0.ctime.nanos # 0 /\ DOMAIN m0.labels # {}
  /\ e.manifest = m0
  /\ e.content = arg

(***************************************************************************)
(* Properties of encoding and decoding (checked under Spec).               *)
(***************************************************************************)
\* wire was produced by an encoder of this crate.
Encoded == sent.kind \in {"Packet", "Header", "Manifest"}

\* The manifest that was encoded, and the manifest that was decoded.
SentManifest == IF sent.kind = "Manifest" THEN sent.val ELSE sent.val.manifest
DecManifest == IF dec.target = "Manifest" THEN dec.r.val ELSE dec.r.val.manifest

\* A Packet<T> was encoded and the blob was decoded into the same Packet<T>,
\* with its fields and content as they were written (the creation time
\* possibly spelled in another offset).
RoundTripped ==
  /\ sent.kind = "Packet"
  /\ dec # None /\ dec.target = "Packet" /\ dec.T = sent.T
  /\ tamper.dropped = {} /\ tamper.extra = {} /\ ~tamper.content

\* C2: a packet whose manifest has labels, encoded and decoded into the
\* same Packet<T>, comes back equal field by field; the creation time is
\* the same instant whatever text spelled it.
C2_RoundTrip ==
  (RoundTripped /\ DOMAIN sent.val.manifest.labels # {})
    => /\ dec.r.ok
       /\ FieldEqual(dec.r.val.manifest, sent.val.manifest)
       /\ dec.r.val.content = sent.val.content

C2_Witness ==
  /\ RoundTripped /\ tamper = Untouched
  /\ DOMAIN sent.val.manifest.labels # {}
  /\ sent.val.manifest.ctime.nanos # 0
  /\ sent.T = "CpuMetrics"
  /\ dec.r.ok /\ dec.r.val = sent.val

\* C3: the encoded form of a packet decodes into Header, and the manifest
\* read is the packet's manifest, whatever the blob carries as content.
C3_HeaderProjection ==
  (sent.kind = "Packet" /\ dec # None /\ dec.target = "Header" /\ tamper.dropped = {})
    => /\ dec.r.ok
       /\ FieldEqual(dec.r.val.manifest, sent.val.manifest)

C3_Witness ==
  /\ sent.kind = "Packet" /\ tamper = Untouched
  /\ "content" \in DOMAIN wire.f
  /\ dec # None /\ dec.target = "Header"
  /\ dec.r.ok /\ dec.r.val.manifest = sent.val.manifest

\* The blob in hand is an object holding a manifest object without the
\* key labels, and nothing else was taken from that manifest.
LabelsAbsent ==
  /\ Encoded \/ sent.kind = "input"
  /\ HasManifestObj(wire)
  /\ "labels" \notin DOMAIN ManifestObj(wire).f
  /\ tamper.dropped \subseteq {"labels"}

\* The decode targets the type whose manifest the blob holds.
ManifestTarget ==
  \/ sent.kind = "Manifest" /\ dec.target = "Manifest"
  \/ sent.kind # "Manifest" /\ dec.target = "Header"

\* C4: a Manifest with no labels is encoded without the field labels (the
\* key is absent, not null and not {}); a manifest blob without the key
\* decodes, to a Manifest with no labels; and encoding what was decoded
\* again writes no key labels.
C4_EmptyLabelsOmitted ==
  /\ (Encoded /\ tamper = Untouched /\ DOMAIN SentManifest.labels = {})
       => "labels" \notin DOMAIN ManifestObj(wire).f
  /\ (dec # None /\ LabelsAbsent /\ ManifestTarget)
       => (dec.r.ok /\ DOMAIN DecManifest.labels = {})

\* Encoded without labels, decoded, and encoded again.
C4_Witness ==
  /\ sent.kind = "Manifest" /\ sent.re
  /\ DOMAIN sent.val.labels = {}
  /\ tamper = Untouched
  /\ DOMAIN wire.f = {"domain", "scope", "kind", "version", "origin", "ctime"}

\* The content of the blob in hand has another shape than T: a text where
\* T is a struct, or an object where T is String.
ShapeMismatch ==
  /\ dec # None /\ dec.target = "Packet"
  /\ wire.t = "obj" /\ "content" \in DOMAIN wire.f
  /\ \/ wire.f["content"].t = "str" /\ dec.T = "CpuMetrics"
     \/ wire.f["content"].t = "obj" /\ dec.T = "String"

\* C5: decoding into Packet<T> a blob whose content has another shape than
\* T fails as a whole, the manifest being valid or not: the result is an
\* error and carries no value, neither a manifest alone nor a packet with
\* a defaulted content.
C5_TypeMismatchRejected ==
  ShapeMismatch => (~dec.r.ok /\ "val" \notin DOMAIN dec.r)

C5_Witness ==
  /\ ShapeMismatch
  /\ sent.kind = "Packet" /\ sent.T = "CpuMetrics"
  /\ tamper.content /\ tamper.dropped = {}
  /\ wire.f["content"] = JStr(S_oops)
  /\ ~dec.r.ok

\* The six fields of Manifest that must be present.
RequiredSix == {"domain", "scope", "kind", "version", "origin", "ctime"}

\* The decode targets a type the encoded value fits.
FittingTarget ==
  \/ ManifestTarget
  \/ sent.kind = "Packet" /\ dec.target = "Packet" /\ dec.T = sent.T /\ ~tamper.content

\* C6: decoding fails, into Manifest, Header and Packet<T> alike, when one
\* of domain, scope, kind, version, origin, ctime is absent from the
\* manifest of the blob; the absence of labels alone fails no decode, and
\* gives the empty mapping.
C6_MissingRequiredField ==
  /\ (dec # None /\ HasManifestObj(wire)
        /\ RequiredSix \ DOMAIN ManifestObj(wire).f # {})
       => ~dec.r.ok
  /\ (dec # None /\ Encoded /\ tamper.dropped = {"labels"} /\ FittingTarget)
       => (dec.r.ok /\ DOMAIN DecManifest.labels = {})

C6_Witness ==
  /\ sent.kind = "Packet"
  /\ tamper.dropped = {"origin"}
  /\ "origin" \notin DOMAIN wire.f["manifest"].f
  /\ dec # None /\ dec.target = "Header"
  /\ ~dec.r.ok

\* The blob in hand without the extra fields it was given.
Stripped == JObj([k \in (DOMAIN wire.f) \ tamper.extra |-> wire.f[k]])

\* The decode of the blob w into the target of the last decode.
DecodeAgain(w) ==
  CASE dec.target = "Header"   -> Deserialize_Header(w)
    [] dec.target = "Manifest" -> Deserialize_Manifest(w)
    [] dec.target = "Packet"   -> Deserialize_Packet(dec.T, w)

\* C7: extra top-level fields change no decode: the result is the one the
\* blob without them gives, so the encoded form of a packet with extra
\* fields decodes into Header with the packet's manifest and into
\* Packet<T> with the packet itself.
C7_OpenWorld ==
  (dec # None /\ tamper.extra # {})
    => /\ dec.r = DecodeAgain(Stripped)
       /\ (sent.kind = "Packet" /\ tamper.dropped = {} /\ dec.target = "Header")
            => (dec.r.ok /\ FieldEqual(dec.r.val.manifest, sent.val.manifest))
       /\ (sent.kind = "Packet" /\ tamper.dropped = {} /\ ~tamper.content
             /\ dec.target = "Packet" /\ dec.T = sent.T)
            => (dec.r.ok /\ FieldEqual(dec.r.val.manifest, sent.val.manifest)
                         /\ dec.r.val.content = sent.val.content)

C7_Witness ==
  /\ sent.kind = "Packet" /\ sent.T = "CpuMetrics"
  /\ tamper.extra = {"payload"} /\ "payload" \in DOMAIN wire.f
  /\ dec # None /\ dec.target = "Packet" /\ dec.T = sent.T
  /\ dec.r.ok /\ dec.r.val = sent.val

\* The last decode read the untouched blob b, as received.
Received(b) ==
  /\ sent.kind = "input" /\ sent.val = b
  /\ tamper = Untouched
  /\ dec # None

\* What the dispatch scenario expects of the decodes of one blob.
DispatchScenario ==
  /\ dec.target = "Header"
       => /\ dec.r.ok
          /\ dec.r.val.manifest.kind = S_cpu
          /\ dec.r.val.manifest.version = 1
          /\ "foo" \in DOMAIN dec.r.val.manifest.labels
          /\ dec.r.val.manifest.labels["foo"] = S_bar
  /\ (dec.target = "Packet" /\ dec.T = "CpuMetrics")
       => /\ dec.r.ok
          /\ Len(dec.r.val.content.idle_percent) >= 3
          /\ dec.r.val.content.idle_percent[3] = 85
  /\ (dec.target = "Packet" /\ dec.T = "String")
       => ~dec.r.ok

\* C9, as stated: the scenario holds of the blob whose top-level keys are
\* manifest and payload and whose payload has interval_seconds and
\* idle_percent only.
C9_PayloadKeyScenario ==
  Received(PayloadKeyBlob) => DispatchScenario

\* C9, amended: the scenario holds of the blob whose top-level keys are
\* manifest and content and whose content is a whole CpuMetrics (begin,
\* end, interval_seconds 10, idle_percent [80,81,85,90,91,92]): Header
\* gives kind cpu, version 1 and labels foo = bar; Packet<CpuMetrics>
\* gives idle_percent[2] = 85 (the third sample); Packet<String> fails.
C9_ContentKeyScenario ==
  Received(CpuFixtureBlob) => DispatchScenario

C9_Witness ==
  /\ Received(CpuFixtureBlob)
  /\ dec.target = "Packet" /\ dec.T = "CpuMetrics"
  /\ dec.r.ok
  /\ dec.r.val.content.idle_percent[3] = 85

====
